---------------------------- MODULE Spec2Model ----------------------------
(***************************************************************************)
(* Model of the tts-model PDF reading service: the sentence-aware text     *)
(* chunker (services/pdf_service.py and the older pdf_processor.py), the   *)
(* page orchestrator (process_pdf_page / process_pdf) and the in-memory    *)
(* session store with its upload / read_chunk / get_status handlers        *)
(* (api/routes/pdf_routes.py, app.py).                                     *)
(*                                                                         *)
(* A Python str is modelled as a sequence of one-character strings, so     *)
(* that strip(), split(), join() and the character scan of the sentence    *)
(* splitter are computed the way the code computes them.                   *)
(***************************************************************************)
EXTENDS Integers, Sequences, FiniteSets, TLC

VARIABLES
    pdf_sessions,    \* the module-level dict: session id -> PDFSession
    uploaded,        \* ghost: the ids inserted by upload_pdf (not by a test's direct insertion)
    last_read,       \* ghost: id -> the index and page of the last successful read_chunk, or NoRead
    now,             \* the wall clock read by datetime.now(timezone.utc)
    pending,         \* read_chunk requests suspended in "await synthesize(chunk.text)"
    response,        \* the last HTTP response produced by a handler
    temp_files,      \* the processor's temp_dir: file name -> the bytes written to it
    uploads,         \* the upload requests begun, in arrival order, with their progress
    deployed,        \* the application serving the uploads: "routes" or "app" (app.py)
    text,            \* argument of create_chunks_from_text
    page_number,     \* argument of create_chunks_from_text
    max_chunk_size,  \* argument of create_chunks_from_text
    result,          \* what the called function produced
    pc               \* "idle" before the call, "done" after it

vars == <<pdf_sessions, uploaded, last_read, now, pending, response,
          temp_files, uploads, deployed,
          text, page_number, max_chunk_size, result, pc>>

session_vars == <<pdf_sessions, uploaded, last_read, now, pending, response>>
call_vars == <<text, page_number, max_chunk_size, result, pc>>
upload_vars == <<temp_files, uploads, deployed>>

-----------------------------------------------------------------------------
(* Bounds of the model.                                                    *)

MaxTextLen == 5       \* longest text handed to the chunk builder
MaxChunkSize == 3     \* largest max_chunk_size tried by the builder runs
MaxPageNumber == 1    \* page numbers tried by the builder runs
MaxSessions == 1      \* sessions the store may hold
MaxTime == 1          \* last clock value
MaxPending == 1       \* read_chunk requests simultaneously in synthesis
MaxUploads == 2       \* upload requests, where uploads overlap
MaxReaders == 2       \* read_chunk requests suspended at once, where reads overlap
MaxIndex == 2         \* chunk_index path parameters range over -MaxIndex .. MaxIndex

-----------------------------------------------------------------------------
(* Python str operations.                                                  *)

Alphabet == {"a", "b", " ", ".", "?"}
Whitespace == {" ", "\n", "\t"}
Terminals == {".", "!", "?"}

Texts(n) == UNION {[1..k -> Alphabet] : k \in 0..n}

\* str.lstrip()
RECURSIVE lstrip(_)
lstrip(s) ==
    IF s = <<>> THEN <<>>
    ELSE IF Head(s) \in Whitespace THEN lstrip(Tail(s)) ELSE s

\* str.rstrip()
RECURSIVE rstrip(_)
rstrip(s) ==
    IF s = <<>> THEN <<>>
    ELSE IF s[Len(s)] \in Whitespace THEN rstrip(SubSeq(s, 1, Len(s) - 1)) ELSE s

\* str.strip()
strip(s) == rstrip(lstrip(s))

\* str.split() with no separator: the maximal runs of non-whitespace
RECURSIVE split_scan(_, _, _)
split_scan(s, word, words) ==
    IF s = <<>> THEN (IF word = <<>> THEN words ELSE Append(words, word))
    ELSE IF Head(s) \in Whitespace
         THEN split_scan(Tail(s), <<>>, IF word = <<>> THEN words ELSE Append(words, word))
         ELSE split_scan(Tail(s), Append(word, Head(s)), words)

split(s) == split_scan(s, <<>>, <<>>)

\* sep.join(parts)
RECURSIVE join(_, _)
join(sep, parts) ==
    IF parts = <<>> THEN <<>>
    ELSE IF Len(parts) = 1 THEN parts[1]
    ELSE parts[1] \o sep \o join(sep, Tail(parts))

Space == <<" ">>

\* any(c in text for c in '.!?')
has_terminal(s) == \E i \in 1..Len(s) : s[i] \in Terminals

-----------------------------------------------------------------------------
(* TextChunk and the chunk builder of services/pdf_service.py.             *)

TextChunk(t, p, i) ==
    [text |-> t, page_number |-> p, chunk_index |-> i, is_sentence_start |-> TRUE]

\* Faulty variant of scan_sentences: a terminal character ends the
\* sentence also when it is the first character accumulated.
RECURSIVE scan_sentences_any_terminal(_, _, _)
scan_sentences_any_terminal(s, current, sentences) ==
    IF s = <<>>
    THEN (IF current # <<>> THEN Append(sentences, strip(current)) ELSE sentences)
    ELSE IF Head(s) \in Terminals
         THEN scan_sentences_any_terminal(Tail(s), <<>>,
                  Append(sentences, strip(Append(current, Head(s)))))
         ELSE scan_sentences_any_terminal(Tail(s), Append(current, Head(s)), sentences)

\* The character scan that splits a text into sentences.
RECURSIVE scan_sentences(_, _, _)
scan_sentences(s, current, sentences) ==
    IF s = <<>>
    THEN (IF current # <<>> THEN Append(sentences, strip(current)) ELSE sentences)
    ELSE LET cur == Append(current, Head(s)) IN
         IF Head(s) \in Terminals /\ Len(cur) > 1
         THEN scan_sentences(Tail(s), <<>>, Append(sentences, strip(cur)))
         ELSE scan_sentences(Tail(s), cur, sentences)

split_sentences(s) == scan_sentences(s, <<>>, <<>>)

\* Emitting the accumulator as one chunk and resetting it (the yield, the
\* chunk_index += 1 and the two resets).
flush_words(st, p) ==
    [current_words |-> <<>>, current_word_length |-> 0,
     chunk_index |-> st.chunk_index + 1,
     out |-> Append(st.out, TextChunk(join(Space, st.current_words), p, st.chunk_index))]

\* current_words.append(word) and the running length
add_word(st, word) ==
    [st EXCEPT !.current_words = Append(@, word),
               !.current_word_length = @ + Len(word) + (IF @ > 0 THEN 1 ELSE 0)]

\* One pass of "for word in words".
word_step(st, word, p, M) ==
    add_word(IF st.current_word_length + Len(word)
                  + (IF st.current_words # <<>> THEN 1 ELSE 0) > M
                /\ st.current_words # <<>>
             THEN flush_words(st, p) ELSE st,
             word)

\* The inner loop that re-splits an over-long sentence at word boundaries.
\* st = [current_words, current_word_length, chunk_index, out]
RECURSIVE word_loop(_, _, _, _)
word_loop(words, st, p, M) ==
    IF words = <<>> THEN st
    ELSE word_loop(Tail(words), word_step(st, Head(words), p, M), p, M)

\* "if current_words: yield ...; chunk_index += 1" after the word loop
finish_words(st, p) ==
    IF st.current_words # <<>> THEN flush_words(st, p) ELSE st

\* Word-level split of one sentence, starting at chunk_index i: the chunks
\* (out) and the next free index (chunk_index).
split_long_sentence(sentence, p, M, i) ==
    finish_words(word_loop(split(sentence),
                           [current_words |-> <<>>, current_word_length |-> 0,
                            chunk_index |-> i, out |-> <<>>], p, M), p)

\* Emitting the pending sentences as one chunk and resetting the accumulator.
flush_chunk(st, p) ==
    [current_chunk |-> <<>>, current_length |-> 0,
     chunk_index |-> st.chunk_index + 1,
     out |-> Append(st.out, TextChunk(join(Space, st.current_chunk), p, st.chunk_index))]

\* Faulty variant of flush_if_overflow: the separating space is left out
\* of new_length.
flush_if_overflow_no_space(st, sentence, p, M) ==
    IF st.current_length + Len(sentence) > M /\ st.current_chunk # <<>>
    THEN flush_chunk(st, p) ELSE st

\* Faulty variant of flush_if_overflow: the accumulator is flushed already
\* when the new length reaches max_chunk_size.
flush_if_overflow_at_limit(st, sentence, p, M) ==
    IF st.current_length + (IF st.current_chunk # <<>> THEN 1 ELSE 0) + Len(sentence) >= M
       /\ st.current_chunk # <<>>
    THEN flush_chunk(st, p) ELSE st

\* "if new_length > max_chunk_size and current_chunk: yield ..."
flush_if_overflow(st, sentence, p, M) ==
    IF st.current_length + (IF st.current_chunk # <<>> THEN 1 ELSE 0) + Len(sentence) > M
       /\ st.current_chunk # <<>>
    THEN flush_chunk(st, p) ELSE st

\* "First yield any accumulated content"
flush_if_pending(st, p) ==
    IF st.current_chunk # <<>> THEN flush_chunk(st, p) ELSE st

\* Faulty variant of emit_words: the indices used by the word-level split
\* are not carried over to the sentence loop.
emit_words_keeps_index(st, w) ==
    [st EXCEPT !.out = @ \o w.out]

\* The chunks of a word-level split appended to the output.
emit_words(st, w) ==
    [st EXCEPT !.out = @ \o w.out, !.chunk_index = w.chunk_index]

\* Faulty variant of word_split_path: a sentence of exactly max_chunk_size
\* characters is split too.
word_split_path_at_limit(sentence, M) == Len(sentence) >= M

\* "If a single sentence is longer than max_chunk_size, split it"
word_split_path(sentence, M) == Len(sentence) > M

\* "if sentence_length > max_chunk_size: ... else: current_chunk.append(...)"
split_or_append(st, sentence, p, M) ==
    IF word_split_path(sentence, M)
    THEN emit_words(flush_if_pending(st, p),
                    split_long_sentence(sentence, p, M, flush_if_pending(st, p).chunk_index))
    ELSE [st EXCEPT !.current_chunk = Append(@, sentence),
                    !.current_length = @ + Len(sentence) + (IF @ > 0 THEN 1 ELSE 0)]

\* One pass of "for sentence in sentences" for a non-empty sentence.
sentence_step(st, sentence, p, M) ==
    split_or_append(flush_if_overflow(st, sentence, p, M), sentence, p, M)

\* The sentence loop.  st = [current_chunk, current_length, chunk_index, out]
RECURSIVE sentence_loop(_, _, _, _)
sentence_loop(sentences, st, p, M) ==
    IF sentences = <<>> THEN st
    ELSE IF strip(Head(sentences)) = <<>> THEN sentence_loop(Tail(sentences), st, p, M)
    ELSE sentence_loop(Tail(sentences),
                       sentence_step(st, strip(Head(sentences)), p, M), p, M)

\* "Yield any remaining text": the chunks yielded in all.
yield_remaining(st, p) ==
    IF st.current_chunk # <<>> THEN flush_chunk(st, p).out ELSE st.out

\* Faulty variant of create_chunks_from_text: the guard tests only
\* "not text" and the last yield is not guarded by "if current_chunk".
create_chunks_from_text_blank(t, p, M) ==
    IF t = <<>> THEN <<>>
    ELSE flush_chunk(
             sentence_loop(split_sentences(t),
                           [current_chunk |-> <<>>, current_length |-> 0,
                            chunk_index |-> 0, out |-> <<>>], p, M), p).out

\* TextChunk.create_chunks_from_text: the list of the chunks it yields.
create_chunks_from_text(t, p, M) ==
    IF t = <<>> \/ strip(t) = <<>> THEN <<>>
    ELSE IF split_sentences(t) = <<>> THEN <<>>
    ELSE yield_remaining(
             sentence_loop(split_sentences(t),
                           [current_chunk |-> <<>>, current_length |-> 0,
                            chunk_index |-> 0, out |-> <<>>], p, M), p)

-----------------------------------------------------------------------------
(* The older chunk builder of pdf_processor.py, which tokenizes with nltk. *)

\* The places where sent_tokenize may break: the first character of a
\* whitespace run that follows sentence-ending punctuation.
break_candidates(s) ==
    {i \in 2..Len(s) : s[i] \in Whitespace /\ s[i - 1] \in Terminals}

RECURSIVE cut_scan(_, _, _, _, _)
cut_scan(s, i, cuts, cur, acc) ==
    IF i > Len(s) THEN (IF strip(cur) # <<>> THEN Append(acc, strip(cur)) ELSE acc)
    ELSE IF i \in cuts THEN cut_scan(s, i + 1, cuts, <<>>, Append(acc, strip(cur)))
    ELSE cut_scan(s, i + 1, cuts, Append(cur, s[i]), acc)

\* nltk's sent_tokenize is an external trained model: every choice of
\* breaks among the candidates is a possible answer.
sent_tokenize(s) ==
    {cut_scan(s, 1, cuts, <<>>, <<>>) : cuts \in SUBSET break_candidates(s)}

\* pdf_processor: emitting the pending sentences as one chunk.
legacy_flush(st, p) ==
    [current_sentences |-> <<>>, current_length |-> 0,
     chunk_index |-> st.chunk_index + 1,
     out |-> Append(st.out, TextChunk(join(Space, st.current_sentences), p, st.chunk_index))]

\* "if new_length > max_chunk_size and current_sentences: yield ..."
legacy_flush_if_overflow(st, sentence, p, M) ==
    IF st.current_length + (IF st.current_sentences # <<>> THEN 1 ELSE 0) + Len(sentence) > M
       /\ st.current_sentences # <<>>
    THEN legacy_flush(st, p) ELSE st

\* current_sentences.append(sentence) and the running length
legacy_append(st, sentence) ==
    [st EXCEPT !.current_sentences = Append(@, sentence),
               !.current_length = @ + Len(sentence) + (IF @ > 0 THEN 1 ELSE 0)]

\* The accumulator replaced by the chunks of a word-level split.
legacy_emit_words(st, w) ==
    [current_sentences |-> <<>>, current_length |-> 0,
     chunk_index |-> w.chunk_index, out |-> st.out \o w.out]

\* "if current_length > max_chunk_size: force split it" (the same word loop
\* as in pdf_service.py)
legacy_force_split(st, sentence, p, M) ==
    IF st.current_length > M
    THEN legacy_emit_words(st, split_long_sentence(sentence, p, M, st.chunk_index))
    ELSE st

\* The sentence loop of pdf_processor.create_chunks_from_text.
\* st = [current_sentences, current_length, chunk_index, out]
RECURSIVE legacy_sentence_loop(_, _, _, _)
legacy_sentence_loop(sentences, st, p, M) ==
    IF sentences = <<>> THEN st
    ELSE legacy_sentence_loop(
             Tail(sentences),
             legacy_force_split(
                 legacy_append(legacy_flush_if_overflow(st, Head(sentences), p, M),
                               Head(sentences)),
                 Head(sentences), p, M),
             p, M)

\* "Yield any remaining text"
legacy_yield_remaining(st, p) ==
    IF st.current_sentences # <<>> THEN legacy_flush(st, p).out ELSE st.out

\* pdf_processor.create_chunks_from_text, given the tokenizer's answer for
\* text.strip().
legacy_create_chunks_from_text(t, sentences, p, M) ==
    IF t = <<>> \/ strip(t) = <<>> THEN <<>>
    ELSE legacy_yield_remaining(
             legacy_sentence_loop(sentences,
                 [current_sentences |-> <<>>, current_length |-> 0,
                  chunk_index |-> 0, out |-> <<>>], p, M), p)

-----------------------------------------------------------------------------
(* The page orchestrator of services/pdf_service.py.                       *)

DefaultMaxChunkSize == 2000

\* page.extract_text raising, as a page content
ExtractError == <<"ExtractError">>

NoError == [raised |-> FALSE, type |-> "", message |-> "", page |-> 0]
PDFExtractionError(msg, p) ==
    [raised |-> TRUE, type |-> "PDFExtractionError", message |-> msg, page |-> p]

\* Faulty variant of ensure_terminal: the period is appended unless the
\* text ends with a terminal character.
ensure_terminal_at_end(t) ==
    IF t = <<>> \/ t[Len(t)] \notin Terminals THEN Append(t, ".") ELSE t

\* "Ensure we have at least one sentence"
ensure_terminal(t) == IF ~has_terminal(t) THEN Append(t, ".") ELSE t

\* The text process_pdf_page hands to the chunk builder: ' '.join(text.split()),
\* the period if needed, and the strip() of the call.
page_text(page) == strip(ensure_terminal(join(Space, split(page))))

\* process_pdf_page: the chunks of one page, or the error it raises
process_pdf_page(page, p, M) ==
    IF page = ExtractError
    THEN [chunks |-> <<>>, error |-> PDFExtractionError("Error processing page", p)]
    ELSE IF page = <<>> \/ strip(page) = <<>>
    THEN [chunks |-> <<>>, error |-> NoError]
    ELSE [chunks |-> create_chunks_from_text(page_text(page), p, M),
          error |-> NoError]

\* The page loop of process_pdf: pages are numbered from 1 by position and
\* the first page that raises ends the iteration.
RECURSIVE page_loop(_, _, _, _)
RECURSIVE page_step(_, _, _, _, _)

\* Faulty variant of page_loop: enumerate(pdf.pages) without its start 1.
page_loop_numbers_from_zero(doc, p, M, out) ==
    IF p > Len(doc) THEN [chunks |-> out, error |-> NoError]
    ELSE page_step(doc, p, M, out, process_pdf_page(doc[p], p - 1, M))

page_loop(doc, p, M, out) ==
    IF p > Len(doc) THEN [chunks |-> out, error |-> NoError]
    ELSE page_step(doc, p, M, out, process_pdf_page(doc[p], p, M))

\* Faulty variant of page_step: a page that raises is skipped and the
\* iteration goes on.
page_step_skips_failed_page(doc, p, M, out, r) ==
    IF r.error.raised THEN page_loop(doc, p + 1, M, out)
    ELSE page_loop(doc, p + 1, M, out \o r.chunks)

\* "yield from process_pdf_page(...)" and the except clauses around it
page_step(doc, p, M, out, r) ==
    IF r.error.raised
    THEN [chunks |-> out \o r.chunks,
          error |-> PDFExtractionError(
              "Error processing PDF: Error processing page: Error processing page", p)]
    ELSE page_loop(doc, p + 1, M, out \o r.chunks)

\* process_pdf on the temporary file holding `content`: the chunks it yields
\* before it ends, and the error it ends with, if any.
process_pdf(content, M) ==
    IF content.bytes = "garbage"
    THEN [chunks |-> <<>>, error |-> PDFExtractionError("Invalid PDF format", 0)]
    ELSE IF content.pages = <<>>
    THEN [chunks |-> <<>>,
          error |-> PDFExtractionError("Error processing PDF: PDF has no pages", 0)]
    ELSE page_loop(content.pages, 1, M, <<>>)

\* temp_path = os.path.join(self.temp_dir, f"temp_{filename}")
temp_path(filename) == <<"t", "e", "m", "p", "_">> \o filename

\* open(temp_path, "wb") succeeds when temp_path names a file directly in
\* temp_dir; a "/" in the file name points into a directory that does not
\* exist.
writable(filename) == \A i \in 1..Len(filename) : filename[i] # "/"

\* what open() raises otherwise
OSError ==
    [raised |-> TRUE, type |-> "OSError", message |-> "No such file or directory", page |-> 0]

\* PDFProcessor.process_uploaded_pdf: the chunks it yields before it ends,
\* and the error it ends with, if any.
process_uploaded_pdf(content, filename) ==
    IF content.bytes = "none"
    THEN [chunks |-> <<>>, error |-> PDFExtractionError("Empty PDF content", 0)]
    ELSE IF ~writable(filename)
    THEN [chunks |-> <<>>, error |-> OSError]
    ELSE process_pdf(content, DefaultMaxChunkSize)

\* f.write(pdf_content) on a file opened "wb"
write_file(files, path, bytes) ==
    [f \in DOMAIN files \cup {path} |-> IF f = path THEN bytes ELSE files[f]]

\* "if os.path.exists(temp_path): os.remove(temp_path)"
remove_if_exists(files, path) == [f \in DOMAIN files \ {path} |-> files[f]]

\* Faulty variant of temp_dir_after: the file is removed after the last
\* chunk only, not when the processing raises.
temp_dir_after_leaks_on_error(files, content, filename) ==
    IF content.bytes = "none" \/ ~writable(filename) THEN files
    ELSE IF process_pdf(content, DefaultMaxChunkSize).error.raised
    THEN write_file(files, temp_path(filename), content)
    ELSE remove_if_exists(write_file(files, temp_path(filename), content),
                          temp_path(filename))

\* The temp_dir once process_uploaded_pdf has ended: nothing is written
\* when it raises before or in open(); otherwise the finally clause runs
\* after the last chunk or the error.
temp_dir_after(files, content, filename) ==
    IF content.bytes = "none" \/ ~writable(filename) THEN files
    ELSE remove_if_exists(write_file(files, temp_path(filename), content),
                          temp_path(filename))

-----------------------------------------------------------------------------
(* The session store and the handlers of api/routes/pdf_routes.py.         *)

SessionIds == 1..MaxSessions
BogusId == 0                              \* an id no session is ever stored under
RequestIds == {BogusId} \cup SessionIds   \* the {session_id} path parameter
Indices == (-MaxIndex)..MaxIndex          \* the {chunk_index} path parameter

PDFSession(id, chunks, current_index, last_accessed) ==
    [id |-> id, chunks |-> chunks, current_index |-> current_index,
     last_accessed |-> last_accessed]

\* list[i] raising IndexError: Python accepts -len(list) <= i < len(list)
raises_IndexError(list, i) == i >= Len(list) \/ i < -Len(list)

\* list[i], negative i counting from the end
getitem(list, i) == IF i >= 0 THEN list[i + 1] ELSE list[Len(list) + i + 1]

\* pdf_sessions.get(session_id) returning a session
session_found(session_id) == session_id \in DOMAIN pdf_sessions

NoException == [raised |-> FALSE, status_code |-> 0, detail |-> ""]
HTTPException(status_code, detail) ==
    [raised |-> TRUE, status_code |-> status_code, detail |-> detail]

\* HTTPException(status_code, detail=str(e)) for a PDFExtractionError e: the
\* detail is e's message, with the page number the message names.
HTTPExceptionFrom(status_code, e) ==
    [raised |-> TRUE, status_code |-> status_code, detail |-> e.message, page |-> e.page]

\* The JSON body {"detail": ...} of a raised HTTPException.
error_body(e) ==
    IF "page" \in DOMAIN e THEN [detail |-> e.detail, page |-> e.page]
    ELSE [detail |-> e.detail]

\* A response, with the operation and the {session_id} of its request.
NoResponse == [op |-> "", session_id |-> BogusId, status_code |-> 0, body |-> [detail |-> ""]]
Response(op, session_id, status_code, body) ==
    [op |-> op, session_id |-> session_id, status_code |-> status_code, body |-> body]

NoRead == [read |-> FALSE, chunk_index |-> 0, page_number |-> 0]

\* The uploaded file names: str.lower() and str.endswith('.pdf').
Filenames ==
    { <<"t", ".", "p", "d", "f">>, <<"T", ".", "P", "D", "F">>,
      <<"t", ".", "t", "x", "t">>, <<".", ".", "/", "t", ".", "p", "d", "f">> }

lower_char(c) ==
    CASE c = "T" -> "t" [] c = "P" -> "p" [] c = "D" -> "d" [] c = "F" -> "f" [] OTHER -> c

lower(s) == [i \in 1..Len(s) |-> lower_char(s[i])]

endswith(s, suffix) ==
    Len(s) >= Len(suffix) /\ SubSeq(s, Len(s) - Len(suffix) + 1, Len(s)) = suffix

\* The uploaded contents: no bytes, bytes pdfplumber cannot open, or a PDF
\* whose pages extract to the given texts.
PageBlank == <<" ">>
PageAB == <<"a", " ", "b">>
PageADotB == <<"a", ".", "b">>

Pdf(doc) == [bytes |-> "pdf", pages |-> doc]

Contents ==
    { [bytes |-> "none", pages |-> <<>>], [bytes |-> "garbage", pages |-> <<>>],
      Pdf(<<>>), Pdf(<<PageBlank>>), Pdf(<<PageBlank, PageADotB>>),
      Pdf(<<PageAB, PageADotB>>), Pdf(<<PageAB, ExtractError>>) }

\* uuid.uuid4(): an id not yet in the store (sessions are never removed)
uuid4 == Cardinality(DOMAIN pdf_sessions) + 1

\* Faulty variant of collect_chunks: "if not chunks" is left out.
collect_chunks_unchecked(r) ==
    IF r.error.raised /\ r.error.type = "PDFExtractionError"
    THEN [error |-> HTTPExceptionFrom(400, r.error), chunks |-> <<>>]
    ELSE IF r.error.raised
    THEN [error |-> HTTPException(500, "Unexpected error processing PDF"), chunks |-> <<>>]
    ELSE [error |-> NoException, chunks |-> r.chunks]

\* The "async for" that collects the chunks, its except clauses and the
\* "if not chunks" that follows.
collect_chunks(r) ==
    IF r.error.raised /\ r.error.type = "PDFExtractionError"
    THEN [error |-> HTTPExceptionFrom(400, r.error), chunks |-> <<>>]
    ELSE IF r.error.raised
    THEN [error |-> HTTPException(500, "Unexpected error processing PDF"), chunks |-> <<>>]
    ELSE IF r.chunks = <<>>
    THEN [error |-> HTTPException(400, "No text content found in PDF"), chunks |-> <<>>]
    ELSE [error |-> NoException, chunks |-> r.chunks]

\* Faulty variant of upload_outcome: the content is examined before the
\* file name.
upload_outcome_content_first(filename, content) ==
    IF content.bytes = "none"
    THEN [error |-> HTTPException(400, "Empty PDF file"), chunks |-> <<>>]
    ELSE IF ~endswith(lower(filename), <<".", "p", "d", "f">>)
    THEN [error |-> HTTPException(400, "File must be a PDF"), chunks |-> <<>>]
    ELSE collect_chunks(process_uploaded_pdf(content, filename))

\* What upload_pdf decides: the exception it raises, or the chunks of the
\* session it inserts.
upload_outcome(filename, content) ==
    IF ~endswith(lower(filename), <<".", "p", "d", "f">>)
    THEN [error |-> HTTPException(400, "File must be a PDF"), chunks |-> <<>>]
    ELSE IF content.bytes = "none"
    THEN [error |-> HTTPException(400, "Empty PDF file"), chunks |-> <<>>]
    ELSE collect_chunks(process_uploaded_pdf(content, filename))

\* upload_pdf raising, or storing the session and answering.
upload_finish(o, session_id) ==
    IF o.error.raised
    THEN /\ response' = Response("upload", BogusId, o.error.status_code,
                                 error_body(o.error))
         /\ UNCHANGED <<pdf_sessions, uploaded, last_read, now, pending>>
    ELSE /\ session_id \in SessionIds
         /\ pdf_sessions' = pdf_sessions @@
                (session_id :> PDFSession(session_id, o.chunks, 0, now))
         /\ uploaded' = uploaded \cup {session_id}
         /\ last_read' = last_read @@ (session_id :> NoRead)
         /\ response' = Response("upload", BogusId, 200,
                                 [session_id |-> session_id, total_chunks |-> Len(o.chunks)])
         /\ UNCHANGED <<now, pending>>

\* The temp_dir after upload_pdf: process_uploaded_pdf is called only for
\* a file name ending in .pdf.
upload_temp_dir(files, filename, content) ==
    IF ~endswith(lower(filename), <<".", "p", "d", "f">>) THEN files
    ELSE temp_dir_after(files, content, filename)

\* upload_outcome tabulated over the uploads of the model: it depends on
\* the file name and the content only.
upload_outcomes ==
    [filename \in Filenames |->
        [content \in Contents |-> upload_outcome(filename, content)]]

\* POST /pdf/upload.  The handler suspends only in "await file.read()",
\* before it touches the store or the temp_dir; what follows is one step.
upload_pdf(filename, content) ==
    /\ upload_finish(upload_outcomes[filename][content], uuid4)
    /\ temp_files' = upload_temp_dir(temp_files, filename, content)

\* The tests' direct insertion "pdf_sessions[session_id] = PDFSession(id=...,
\* chunks=[], last_accessed=now)" of a session that no upload created.
insert_session(chunks) ==
    LET session_id == uuid4 IN
    /\ session_id \in SessionIds
    /\ pdf_sessions' = pdf_sessions @@ (session_id :> PDFSession(session_id, chunks, 0, now))
    /\ last_read' = last_read @@ (session_id :> NoRead)
    /\ UNCHANGED <<uploaded, now, pending, response>>

\* Faulty variant of read_chunk_check: the index is examined before the
\* session lookup is decided.
read_chunk_check_index_first(session_id, chunk_index) ==
    IF raises_IndexError(IF session_found(session_id)
                         THEN pdf_sessions[session_id].chunks ELSE <<>>, chunk_index)
    THEN HTTPException(400, "Invalid chunk index")
    ELSE IF ~session_found(session_id)
    THEN HTTPException(404, "Session not found")
    ELSE NoException

\* What read_chunk raises before it touches the session.
read_chunk_check(session_id, chunk_index) ==
    IF ~session_found(session_id)
    THEN HTTPException(404, "Session not found")
    ELSE IF raises_IndexError(pdf_sessions[session_id].chunks, chunk_index)
    THEN HTTPException(400, "Invalid chunk index")
    ELSE NoException

\* Faulty variant of update_session: only the timestamp is refreshed.
update_session_keeps_index(session, chunk_index, t) ==
    [session EXCEPT !.last_accessed = t]

\* Faulty variant of update_session: the timestamp is left for later.
update_session_stale_timestamp(session, chunk_index, t) ==
    [session EXCEPT !.current_index = chunk_index]

\* "Update session state"
update_session(session, chunk_index, t) ==
    [session EXCEPT !.current_index = chunk_index, !.last_accessed = t]

\* Faulty variant of read_chunk: the timestamp of a session that was found
\* is refreshed before the index is examined.
read_chunk_touches_first(session_id, chunk_index) ==
    IF read_chunk_check(session_id, chunk_index).raised
    THEN /\ response' = Response("read", session_id,
                                 read_chunk_check(session_id, chunk_index).status_code,
                                 [detail |-> read_chunk_check(session_id, chunk_index).detail])
         /\ pdf_sessions' =
                IF session_found(session_id)
                THEN [pdf_sessions EXCEPT ![session_id].last_accessed = now]
                ELSE pdf_sessions
         /\ UNCHANGED <<uploaded, last_read, now, pending>>
    ELSE /\ pdf_sessions' = [pdf_sessions EXCEPT ![session_id] =
                                update_session(pdf_sessions[session_id], chunk_index, now)]
         /\ last_read' = [last_read EXCEPT ![session_id] =
                [read |-> TRUE, chunk_index |-> chunk_index,
                 page_number |->
                     getitem(pdf_sessions[session_id].chunks, chunk_index).page_number]]
         /\ pending' = pending \cup
                {[session_id |-> session_id, chunk_index |-> chunk_index,
                  text |-> getitem(pdf_sessions[session_id].chunks, chunk_index).text]}
         /\ UNCHANGED <<uploaded, now, response>>

\* Faulty variant of read_chunk: a read refreshes the timestamp of every
\* session of the store.
read_chunk_touches_all(session_id, chunk_index) ==
    IF read_chunk_check(session_id, chunk_index).raised
    THEN /\ response' = Response("read", session_id,
                                 read_chunk_check(session_id, chunk_index).status_code,
                                 [detail |-> read_chunk_check(session_id, chunk_index).detail])
         /\ UNCHANGED <<pdf_sessions, uploaded, last_read, now, pending>>
    ELSE /\ pdf_sessions' =
                [id \in DOMAIN pdf_sessions |->
                    IF id = session_id
                    THEN update_session(pdf_sessions[id], chunk_index, now)
                    ELSE [pdf_sessions[id] EXCEPT !.last_accessed = now]]
         /\ last_read' = [last_read EXCEPT ![session_id] =
                [read |-> TRUE, chunk_index |-> chunk_index,
                 page_number |->
                     getitem(pdf_sessions[session_id].chunks, chunk_index).page_number]]
         /\ pending' = pending \cup
                {[session_id |-> session_id, chunk_index |-> chunk_index,
                  text |-> getitem(pdf_sessions[session_id].chunks, chunk_index).text]}
         /\ UNCHANGED <<uploaded, now, response>>

\* GET /pdf/{session_id}/read/{chunk_index}, up to "await synthesize(...)".
\* No await separates the lookup from the two assignments, so on the event
\* loop they are one step.
read_chunk(session_id, chunk_index) ==
    LET e == read_chunk_check(session_id, chunk_index) IN
    IF e.raised
    THEN /\ response' = Response("read", session_id, e.status_code,
                                 [detail |-> e.detail])
         /\ UNCHANGED <<pdf_sessions, uploaded, last_read, now, pending>>
    ELSE LET session == pdf_sessions[session_id]
             chunk == getitem(session.chunks, chunk_index)
         IN /\ pdf_sessions' = [pdf_sessions EXCEPT
                                   ![session_id] = update_session(session, chunk_index, now)]
            /\ last_read' = [last_read EXCEPT ![session_id] =
                                [read |-> TRUE, chunk_index |-> chunk_index,
                                 page_number |-> chunk.page_number]]
            /\ pending' = pending \cup
                   {[session_id |-> session_id, chunk_index |-> chunk_index,
                     text |-> chunk.text]}
            /\ UNCHANGED <<uploaded, now, response>>

\* A read_chunk request is admitted while fewer than `limit` are suspended in
\* synthesis; one that raises suspends nowhere.
admitted(session_id, chunk_index, limit) ==
    read_chunk_check(session_id, chunk_index).raised \/ Cardinality(pending) < limit

\* services/tts_service.synthesize: rejects empty text; otherwise the
\* answer is the external service's.
SynthesisOutcomes(t) ==
    IF t = <<>> \/ strip(t) = <<>> THEN {"ValueError"} ELSE {"audio", "Exception"}

\* The response of read_chunk once synthesize has returned or raised.
synthesis_response(request, outcome) ==
    Response("read", request.session_id,
        CASE outcome = "audio" -> 200 [] outcome = "ValueError" -> 400 [] OTHER -> 500,
        CASE outcome = "audio" -> [audio |-> request.text]
          [] outcome = "ValueError" -> [detail |-> "Text cannot be empty"]
          [] OTHER -> [detail |-> "Error generating audio"])

\* Faulty variant of synthesize_done: the cursor is written when the audio
\* is ready.
synthesize_done_moves_cursor(request, outcome) ==
    /\ request \in pending
    /\ outcome \in SynthesisOutcomes(request.text)
    /\ pending' = pending \ {request}
    /\ response' = synthesis_response(request, outcome)
    /\ pdf_sessions' = [pdf_sessions EXCEPT
                           ![request.session_id].current_index = request.chunk_index]
    /\ UNCHANGED <<uploaded, last_read, now>>

\* Faulty variant of synthesize_done: a failed synthesis takes the cursor
\* back to the start.
synthesize_done_rolls_back(request, outcome) ==
    /\ request \in pending
    /\ outcome \in SynthesisOutcomes(request.text)
    /\ pending' = pending \ {request}
    /\ response' = synthesis_response(request, outcome)
    /\ pdf_sessions' = [pdf_sessions EXCEPT ![request.session_id].current_index =
                           IF outcome = "audio" THEN @ ELSE 0]
    /\ UNCHANGED <<uploaded, last_read, now>>

\* read_chunk resumed when synthesize returns or raises.
synthesize_done(request, outcome) ==
    /\ request \in pending
    /\ outcome \in SynthesisOutcomes(request.text)
    /\ pending' = pending \ {request}
    /\ response' = synthesis_response(request, outcome)
    /\ UNCHANGED <<pdf_sessions, uploaded, last_read, now>>

\* read_chunk cancelled while suspended in "await synthesize(chunk.text)":
\* CancelledError is not an Exception, no except clause catches it, and the
\* request ends without a response.
cancel(request) ==
    /\ request \in pending
    /\ pending' = pending \ {request}
    /\ UNCHANGED <<pdf_sessions, uploaded, last_read, now, response>>

\* What get_status answers.  The IndexError of session.chunks[current_index]
\* is caught by no handler and leaves as 500 Internal Server Error.
get_status_response(session_id) ==
    IF ~session_found(session_id)
    THEN [status_code |-> 404, body |-> [detail |-> "Session not found"]]
    ELSE LET session == pdf_sessions[session_id] IN
         IF raises_IndexError(session.chunks, session.current_index)
         THEN [status_code |-> 500, body |-> [detail |-> "Internal Server Error"]]
         ELSE [status_code |-> 200,
               body |-> [current_index |-> session.current_index,
                         total_chunks |-> Len(session.chunks),
                         current_page |->
                             getitem(session.chunks, session.current_index).page_number]]

\* Faulty variant of get_status: asking for the status counts as an access.
get_status_refreshes(session_id) ==
    /\ response' = Response("status", session_id,
                            get_status_response(session_id).status_code,
                            get_status_response(session_id).body)
    /\ pdf_sessions' =
           IF session_found(session_id)
           THEN [pdf_sessions EXCEPT ![session_id].last_accessed = now]
           ELSE pdf_sessions
    /\ UNCHANGED <<uploaded, last_read, now, pending>>

\* GET /pdf/{session_id}/status
get_status(session_id) ==
    LET r == get_status_response(session_id) IN
    /\ response' = Response("status", session_id, r.status_code, r.body)
    /\ UNCHANGED <<pdf_sessions, uploaded, last_read, now, pending>>

\* datetime.now(timezone.utc) advancing
tick ==
    /\ now < MaxTime
    /\ now' = now + 1
    /\ UNCHANGED <<pdf_sessions, uploaded, last_read, pending, response>>

-----------------------------------------------------------------------------
(* The service: requests in any order, reads overlapping in synthesis.     *)

NoResult == [fn |-> "", sentences |-> <<>>, chunks |-> <<>>]

Init ==
    /\ pdf_sessions = <<>>
    /\ uploaded = {}
    /\ last_read = <<>>
    /\ now = 0
    /\ pending = {}
    /\ response = NoResponse
    /\ temp_files = <<>>
    /\ uploads = <<>>
    /\ deployed = "routes"
    /\ text = <<>>
    /\ page_number = 1
    /\ max_chunk_size = DefaultMaxChunkSize
    /\ result = NoResult
    /\ pc = "idle"

Next ==
    \/ \E filename \in Filenames, content \in Contents :
           upload_pdf(filename, content) /\ UNCHANGED <<call_vars, uploads, deployed>>
    \/ insert_session(<<>>) /\ UNCHANGED <<call_vars, upload_vars>>
    \/ \E session_id \in RequestIds, chunk_index \in Indices :
           /\ admitted(session_id, chunk_index, MaxPending)
           /\ read_chunk(session_id, chunk_index)
           /\ UNCHANGED <<call_vars, upload_vars>>
    \/ \E request \in pending, outcome \in {"audio", "ValueError", "Exception"} :
           synthesize_done(request, outcome) /\ UNCHANGED <<call_vars, upload_vars>>
    \/ \E session_id \in RequestIds :
           get_status(session_id) /\ UNCHANGED <<call_vars, upload_vars>>
    \/ tick /\ UNCHANGED <<call_vars, upload_vars>>

Spec == Init /\ [][Next]_vars

-----------------------------------------------------------------------------
(* Overlapping uploads, to the routers of api/routes or to app.py.         *)

\* The file names and contents of the overlapping uploads.
UploadFilenames ==
    { <<"t", ".", "p", "d", "f">>, <<"t", ".", "t", "x", "t">>,
      <<".", ".", "/", "t", ".", "p", "d", "f">> }

UploadContents ==
    { [bytes |-> "none", pages |-> <<>>], Pdf(<<>>), Pdf(<<PageBlank>>),
      Pdf(<<PageBlank, PageADotB>>), Pdf(<<PageAB, PageADotB>>),
      Pdf(<<PageAB, ExtractError>>) }

\* What "async for" raises in app.py: the process_uploaded_pdf of
\* pdf_processor.py is a plain generator function, and its generator has no
\* __aiter__.  Its body never starts.
TypeError ==
    [raised |-> TRUE, type |-> "TypeError",
     message |-> "'async for' requires an object with __aiter__ method, got generator",
     page |-> 0]

\* app.py: the "async for", its "except Exception" and the "if not chunks".
app_collect_chunks(r) ==
    IF r.error.raised
    THEN [error |-> HTTPException(400, "Error processing PDF"), chunks |-> <<>>]
    ELSE IF r.chunks = <<>>
    THEN [error |-> HTTPException(400, "No text content found in PDF"), chunks |-> <<>>]
    ELSE [error |-> NoException, chunks |-> r.chunks]

\* What upload_pdf of app.py decides.
app_upload_outcome(filename, content) ==
    IF ~endswith(lower(filename), <<".", "p", "d", "f">>)
    THEN [error |-> HTTPException(400, "File must be a PDF"), chunks |-> <<>>]
    ELSE IF content.bytes = "none"
    THEN [error |-> HTTPException(400, "Empty PDF file"), chunks |-> <<>>]
    ELSE app_collect_chunks([chunks |-> <<>>, error |-> TypeError])

\* upload_pdf of the module that is deployed.
deployed_outcome(filename, content) ==
    IF deployed = "routes" THEN upload_outcome(filename, content)
    ELSE app_upload_outcome(filename, content)

\* The temp_dir after upload_pdf of the module that is deployed.
deployed_temp_dir(files, filename, content) ==
    IF deployed = "routes" THEN upload_temp_dir(files, filename, content)
    ELSE files

\* An upload request: its input, where it is, and its response.
Upload(filename, content, at, overlapped, status_code, body, session_id) ==
    [filename |-> filename, content |-> content, pc |-> at, overlapped |-> overlapped,
     status_code |-> status_code, body |-> body, session_id |-> session_id]

\* Some upload is suspended in "await file.read()".
reading == \E i \in 1..Len(uploads) : uploads[i].pc = "reading"

\* upload_pdf up to "content = await file.read()": the file name is checked
\* first, and a request that passes is suspended while others run.
begin_upload(filename, content) ==
    /\ Len(uploads) < MaxUploads
    /\ IF ~endswith(lower(filename), <<".", "p", "d", "f">>)
       THEN /\ uploads' = Append(uploads,
                   Upload(filename, content, "done", FALSE, 400,
                          [detail |-> "File must be a PDF"], BogusId))
            /\ response' = Response("upload", BogusId, 400,
                                    [detail |-> "File must be a PDF"])
       ELSE /\ uploads' = Append(
                   [i \in 1..Len(uploads) |->
                       IF uploads[i].pc = "reading"
                       THEN [uploads[i] EXCEPT !.overlapped = TRUE] ELSE uploads[i]],
                   Upload(filename, content, "reading", reading, 0, [detail |-> ""],
                          BogusId))
            /\ UNCHANGED response
    /\ UNCHANGED <<pdf_sessions, uploaded, last_read, now, pending, temp_files, deployed>>

\* The request raising: its response is the exception's.
upload_raise(i, e) ==
    /\ uploads' = [uploads EXCEPT ![i].pc = "done", ![i].status_code = e.status_code,
                                  ![i].body = error_body(e)]
    /\ response' = Response("upload", BogusId, e.status_code, error_body(e))
    /\ UNCHANGED <<pdf_sessions, uploaded, last_read>>

\* The request storing its session and answering.
upload_store(i, session_id, chunks) ==
    /\ uploads' = [uploads EXCEPT ![i].pc = "done", ![i].status_code = 200,
                                  ![i].body = [session_id |-> session_id,
                                               total_chunks |-> Len(chunks)],
                                  ![i].session_id = session_id]
    /\ response' = Response("upload", BogusId, 200,
                            [session_id |-> session_id, total_chunks |-> Len(chunks)])
    /\ pdf_sessions' = pdf_sessions @@ (session_id :> PDFSession(session_id, chunks, 0, now))
    /\ uploaded' = uploaded \cup {session_id}
    /\ last_read' = last_read @@ (session_id :> NoRead)

\* upload_pdf resumed with the content: nothing after "await file.read()"
\* suspends, so the processing, the temporary file and the store are one
\* step.
finish_upload(i) ==
    /\ uploads[i].pc = "reading"
    /\ temp_files' = deployed_temp_dir(temp_files, uploads[i].filename, uploads[i].content)
    /\ IF deployed_outcome(uploads[i].filename, uploads[i].content).error.raised
       THEN upload_raise(i, deployed_outcome(uploads[i].filename, uploads[i].content).error)
       ELSE upload_store(i, uuid4,
                deployed_outcome(uploads[i].filename, uploads[i].content).chunks)
    /\ UNCHANGED <<now, pending, deployed>>

UploadInit ==
    /\ deployed \in {"routes", "app"}
    /\ pdf_sessions = <<>>
    /\ uploaded = {}
    /\ last_read = <<>>
    /\ now = 0
    /\ pending = {}
    /\ response = NoResponse
    /\ temp_files = <<>>
    /\ uploads = <<>>
    /\ text = <<>>
    /\ page_number = 1
    /\ max_chunk_size = DefaultMaxChunkSize
    /\ result = NoResult
    /\ pc = "idle"

UploadNext ==
    \/ \E filename \in UploadFilenames, content \in UploadContents :
           begin_upload(filename, content) /\ UNCHANGED call_vars
    \/ \E i \in 1..Len(uploads) : finish_upload(i) /\ UNCHANGED call_vars

UploadSpec == UploadInit /\ [][UploadNext]_vars

-----------------------------------------------------------------------------
(* Overlapping reads of one uploaded session.                              *)

\* The documents whose upload created the session that is read.
ReadDocuments == {Pdf(<<PageAB, PageADotB>>), Pdf(<<PageBlank, PageADotB>>)}

\* The chunks upload_pdf stores for a document uploaded as t.pdf.
uploaded_chunks(content) == upload_outcome(<<"t", ".", "p", "d", "f">>, content).chunks

\* The service after one successful upload has been answered.
ReadInit ==
    /\ \E content \in ReadDocuments :
           /\ pdf_sessions = (1 :> PDFSession(1, uploaded_chunks(content), 0, 0))
           /\ response = Response("upload", BogusId, 200,
                                  [session_id |-> 1,
                                   total_chunks |-> Len(uploaded_chunks(content))])
    /\ uploaded = {1}
    /\ last_read = (1 :> NoRead)
    /\ now = 0
    /\ pending = {}
    /\ temp_files = <<>>
    /\ uploads = <<>>
    /\ deployed = "routes"
    /\ text = <<>>
    /\ page_number = 1
    /\ max_chunk_size = DefaultMaxChunkSize
    /\ result = NoResult
    /\ pc = "idle"

ReadNext ==
    \/ \E session_id \in RequestIds, chunk_index \in Indices :
           /\ admitted(session_id, chunk_index, MaxReaders)
           /\ read_chunk(session_id, chunk_index)
           /\ UNCHANGED <<call_vars, upload_vars>>
    \/ \E request \in pending, outcome \in {"audio", "ValueError", "Exception"} :
           synthesize_done(request, outcome) /\ UNCHANGED <<call_vars, upload_vars>>
    \/ \E request \in pending : cancel(request) /\ UNCHANGED <<call_vars, upload_vars>>
    \/ \E session_id \in RequestIds :
           get_status(session_id) /\ UNCHANGED <<call_vars, upload_vars>>
    \/ tick /\ UNCHANGED <<call_vars, upload_vars>>

ReadSpec == ReadInit /\ [][ReadNext]_vars

-----------------------------------------------------------------------------
(* Reads and status requests on a store of two uploaded sessions.          *)

\* The {session_id} path parameters: the two sessions and an unknown id.
FrameIds == {BogusId, 1, 2}

\* The answered upload of a document as t.pdf that stored the session.
stored_upload(content, session_id) ==
    Upload(<<"t", ".", "p", "d", "f">>, content, "done", FALSE, 200,
           [session_id |-> session_id, total_chunks |-> Len(uploaded_chunks(content))],
           session_id)

\* The service after two successful uploads have been answered.
FrameInit ==
    /\ \E first \in ReadDocuments, second \in ReadDocuments :
           /\ pdf_sessions = (1 :> PDFSession(1, uploaded_chunks(first), 0, 0))
                              @@ (2 :> PDFSession(2, uploaded_chunks(second), 0, 0))
           /\ uploads = <<stored_upload(first, 1), stored_upload(second, 2)>>
           /\ response = Response("upload", BogusId, 200, stored_upload(second, 2).body)
    /\ uploaded = {1, 2}
    /\ last_read = (1 :> NoRead) @@ (2 :> NoRead)
    /\ now = 0
    /\ pending = {}
    /\ temp_files = <<>>
    /\ deployed = "routes"
    /\ text = <<>>
    /\ page_number = 1
    /\ max_chunk_size = DefaultMaxChunkSize
    /\ result = NoResult
    /\ pc = "idle"

FrameNext ==
    \/ \E session_id \in FrameIds, chunk_index \in Indices :
           /\ admitted(session_id, chunk_index, MaxPending)
           /\ read_chunk(session_id, chunk_index)
           /\ UNCHANGED <<call_vars, upload_vars>>
    \/ \E request \in pending, outcome \in {"audio", "ValueError", "Exception"} :
           synthesize_done(request, outcome) /\ UNCHANGED <<call_vars, upload_vars>>
    \/ \E session_id \in FrameIds :
           get_status(session_id) /\ UNCHANGED <<call_vars, upload_vars>>
    \/ tick /\ UNCHANGED <<call_vars, upload_vars>>

FrameSpec == FrameInit /\ [][FrameNext]_vars

-----------------------------------------------------------------------------
(* The chunk builders called on every small text.                          *)

BuilderInit ==
    /\ pdf_sessions = <<>>
    /\ uploaded = {}
    /\ last_read = <<>>
    /\ now = 0
    /\ pending = {}
    /\ response = NoResponse
    /\ temp_files = <<>>
    /\ uploads = <<>>
    /\ deployed = "routes"
    /\ text \in Texts(MaxTextLen)
    /\ page_number \in 1..MaxPageNumber
    /\ max_chunk_size \in 1..MaxChunkSize
    /\ result = NoResult
    /\ pc = "idle"

\* TextChunk.create_chunks_from_text(text, page_number, max_chunk_size)
call_create_chunks_from_text ==
    /\ pc = "idle"
    /\ result' = [fn |-> "pdf_service",
                  sentences |-> IF text = <<>> \/ strip(text) = <<>> THEN <<>>
                                ELSE split_sentences(text),
                  chunks |-> create_chunks_from_text(text, page_number, max_chunk_size)]
    /\ pc' = "done"
    /\ UNCHANGED <<text, page_number, max_chunk_size>>

\* pdf_processor.create_chunks_from_text(text, page_number, max_chunk_size)
call_legacy_create_chunks_from_text ==
    /\ pc = "idle"
    /\ \E sentences \in sent_tokenize(strip(text)) :
           result' = [fn |-> "pdf_processor", sentences |-> sentences,
                      chunks |-> legacy_create_chunks_from_text(
                                     text, sentences, page_number, max_chunk_size)]
    /\ pc' = "done"
    /\ UNCHANGED <<text, page_number, max_chunk_size>>

\* process_pdf_page of a page whose extract_text gives the text
call_process_pdf_page ==
    /\ pc = "idle"
    /\ result' = [fn |-> "page", sentences |-> <<>>,
                  chunks |-> process_pdf_page(text, page_number, max_chunk_size).chunks]
    /\ pc' = "done"
    /\ UNCHANGED <<text, page_number, max_chunk_size>>

\* TTSRequest.text: Annotated[str, Field(min_length=1)]
valid_TTSRequest(t) == Len(t) >= 1

\* What POST /tts answers to a request with text t, given what synthesize
\* does with it: 422 from the request validation, else the audio, else 500
\* for whatever synthesize raised.
synthesize_text_response(t, outcome) ==
    IF ~valid_TTSRequest(t)
    THEN [status_code |-> 422, body |-> [detail |-> "String should have at least 1 character"]]
    ELSE IF outcome = "audio"
    THEN [status_code |-> 200, body |-> [audio |-> t]]
    ELSE IF outcome = "ValueError"
    THEN [status_code |-> 500, body |-> [detail |-> "Text cannot be empty"]]
    ELSE [status_code |-> 500, body |-> [detail |-> "synthesis failed"]]

\* POST /tts with the text, default voice, rate and volume
synthesize_text ==
    /\ pc = "idle"
    /\ \E outcome \in SynthesisOutcomes(text) :
           response' = Response("tts", BogusId,
                                synthesize_text_response(text, outcome).status_code,
                                synthesize_text_response(text, outcome).body)
    /\ result' = [fn |-> "tts", sentences |-> <<>>, chunks |-> <<>>]
    /\ pc' = "done"
    /\ UNCHANGED <<text, page_number, max_chunk_size,
                   pdf_sessions, uploaded, last_read, now, pending>>

BuilderNext ==
    \/ call_create_chunks_from_text /\ UNCHANGED <<session_vars, upload_vars>>
    \/ call_legacy_create_chunks_from_text /\ UNCHANGED <<session_vars, upload_vars>>
    \/ call_process_pdf_page /\ UNCHANGED <<session_vars, upload_vars>>
    \/ synthesize_text /\ UNCHANGED upload_vars

BuilderSpec == BuilderInit /\ [][BuilderNext]_vars

-----------------------------------------------------------------------------
(* Properties of the session store and its handlers, checked under Spec.   *)

\* C1: for every session created by upload, in every reachable state,
\* 0 <= current_index < len(chunks).
C1_CurrentIndexInRange ==
    \A id \in uploaded :
        /\ 0 <= pdf_sessions[id].current_index
        /\ pdf_sessions[id].current_index < Len(pdf_sessions[id].chunks)

\* C2: on an existing session read_chunk raises 400 "Invalid chunk index"
\* for every index < 0 and every index >= len(chunks), and gets past the
\* index check only when 0 <= index < len(chunks).
C2_OutOfRangeRejected ==
    \A id \in DOMAIN pdf_sessions, k \in Indices :
        IF 0 <= k /\ k < Len(pdf_sessions[id].chunks)
        THEN ~read_chunk_check(id, k).raised
        ELSE read_chunk_check(id, k) = HTTPException(400, "Invalid chunk index")

\* C3: with a session id that is not in the store, read_chunk raises 404
\* "Session not found" whatever the index (the lookup is decided first) and
\* get_status answers 404 "Session not found"; so does every response given
\* to a request for such an id.
C3_UnknownSessionNotFound ==
    /\ \A id \in RequestIds \ DOMAIN pdf_sessions :
           /\ \A k \in Indices :
                  read_chunk_check(id, k) = HTTPException(404, "Session not found")
           /\ get_status_response(id) =
                  [status_code |-> 404, body |-> [detail |-> "Session not found"]]
    /\ (response.op \in {"read", "status"} /\ response.session_id \notin DOMAIN pdf_sessions)
           => /\ response.status_code = 404
              /\ response.body = [detail |-> "Session not found"]

\* A read of an unknown id was answered 404 while the store holds a session.
C3_Witness ==
    /\ DOMAIN pdf_sessions # {}
    /\ response.op = "read"
    /\ response.session_id \notin DOMAIN pdf_sessions
    /\ response.status_code = 404

\* C4: after a successful read_chunk(id, k), and until the next one on that
\* session, get_status(id) answers 200 with current_index = k, total_chunks
\* = len(chunks) and current_page = the page of the chunk that was read.
C4_StatusAfterRead ==
    \A id \in DOMAIN pdf_sessions :
        last_read[id].read =>
            get_status_response(id) =
                [status_code |-> 200,
                 body |-> [current_index |-> last_read[id].chunk_index,
                           total_chunks |-> Len(pdf_sessions[id].chunks),
                           current_page |-> last_read[id].page_number]]

\* get_status has answered after a read that moved the cursor to chunk 1,
\* on page 2.
C4_Witness ==
    /\ response.op = "status"
    /\ response.status_code = 200
    /\ response.session_id \in DOMAIN pdf_sessions
    /\ last_read[response.session_id].read
    /\ last_read[response.session_id].chunk_index = 1
    /\ response.body.current_index = 1
    /\ response.body.current_page = 2

\* C5: get_status on a stored session whose chunk list is empty answers 404
\* "Session has no content".
C5_EmptySessionNoContent ==
    \A id \in DOMAIN pdf_sessions :
        pdf_sessions[id].chunks = <<>> =>
            get_status_response(id) =
                [status_code |-> 404, body |-> [detail |-> "Session has no content"]]

\* C6: a PDF upload whose processing yields zero chunks is refused with 400
\* "No text content found in PDF", and no session created by upload has an
\* empty chunk list.
C6_NoEmptyUploadedSession ==
    /\ \A id \in uploaded :
           id \in DOMAIN pdf_sessions /\ pdf_sessions[id].chunks # <<>>
    /\ \A filename \in Filenames, content \in Contents :
           ( /\ endswith(lower(filename), <<".", "p", "d", "f">>)
             /\ content.bytes # "none"
             /\ ~process_uploaded_pdf(content, filename).error.raised
             /\ process_uploaded_pdf(content, filename).chunks = <<>> )
           => upload_outcome(filename, content).error =
                  HTTPException(400, "No text content found in PDF")

\* An upload was refused for want of text and left the store empty.
C6_Witness ==
    /\ response.op = "upload"
    /\ response.status_code = 400
    /\ response.body = [detail |-> "No text content found in PDF"]
    /\ DOMAIN pdf_sessions = {}

\* C7: each chunk stored in an uploaded session has chunk_index equal to
\* its position in the session's sequence (0..N-1, no gaps, no repeats).
C7_ChunkIndexIsPosition ==
    \A id \in uploaded :
        \A i \in 1..Len(pdf_sessions[id].chunks) :
            pdf_sessions[id].chunks[i].chunk_index = i - 1

\* The pages of a document on which page.extract_text raises.
failing_pages(content) ==
    {p \in 1..Len(content.pages) : content.pages[p] = ExtractError}

\* The file name passes the extension check of upload_pdf.
is_pdf_name(filename) == endswith(lower(filename), <<".", "p", "d", "f">>)

\* C12: when extraction fails on a page of an uploaded document, the upload
\* fails with the extraction error (400) naming the first failing page, it
\* returns no chunks, and no uploaded session holds the chunks of the pages
\* that preceded the failure.
C12_PageFailureFailsDocument ==
    /\ \A filename \in Filenames, content \in Contents :
           (is_pdf_name(filename) /\ writable(filename) /\ failing_pages(content) # {})
           => /\ upload_outcome(filename, content).chunks = <<>>
              /\ upload_outcome(filename, content).error.raised
              /\ upload_outcome(filename, content).error.status_code = 400
              /\ upload_outcome(filename, content).error.page \in failing_pages(content)
              /\ \A q \in failing_pages(content) :
                     upload_outcome(filename, content).error.page <= q
    /\ \A id \in uploaded, content \in Contents :
           failing_pages(content) # {}
           => pdf_sessions[id].chunks # process_pdf(content, DefaultMaxChunkSize).chunks

\* An upload was refused because page 2 of its document failed, after page 1
\* had given chunks; the store holds no session.
C12_Witness ==
    /\ response.op = "upload"
    /\ response.status_code = 400
    /\ "page" \in DOMAIN response.body
    /\ response.body.page = 2
    /\ pdf_sessions = <<>>

\* The three refusals of upload_pdf that precede the insertion.
upload_refused ==
    /\ response.op = "upload"
    /\ response.status_code = 400
    /\ response.body \in {[detail |-> "File must be a PDF"], [detail |-> "Empty PDF file"],
                          [detail |-> "No text content found in PDF"]}

\* C18: upload validation has a fixed order: a file name not ending in .pdf
\* (in any case) gives 400 "File must be a PDF" even with empty content;
\* otherwise empty content gives 400 "Empty PDF file"; otherwise zero
\* extracted chunks give 400 "No text content found in PDF"; and a step that
\* answers with one of these adds no session.
C18_ValidationOrder ==
    /\ [](\A filename \in Filenames, content \in Contents :
            /\ ~is_pdf_name(filename)
                   => upload_outcome(filename, content).error =
                          HTTPException(400, "File must be a PDF")
            /\ (is_pdf_name(filename) /\ content.bytes = "none")
                   => upload_outcome(filename, content).error =
                          HTTPException(400, "Empty PDF file")
            /\ ( /\ is_pdf_name(filename) /\ content.bytes # "none"
                 /\ ~process_uploaded_pdf(content, filename).error.raised
                 /\ process_uploaded_pdf(content, filename).chunks = <<>> )
                   => upload_outcome(filename, content).error =
                          HTTPException(400, "No text content found in PDF"))
    /\ [][(upload_refused' /\ response' # response) => pdf_sessions' = pdf_sessions]_vars

\* An upload with empty content was refused while the store holds a session.
C18_Witness ==
    /\ response.op = "upload"
    /\ response.status_code = 400
    /\ response.body = [detail |-> "Empty PDF file"]
    /\ DOMAIN pdf_sessions # {}

\* C20: an upload is never answered with a 5xx status: the non-.pdf and
\* empty-content refusals are 400, and a .pdf upload with content is
\* answered 200 or 400 whatever its file name.
C20_UploadNever5xx ==
    response.op = "upload" => response.status_code \in {200, 400}

-----------------------------------------------------------------------------
(* Properties of overlapping uploads, checked under UploadSpec.            *)

\* The chunks the pages of a document extract to.
extracted(content) == process_pdf(content, DefaultMaxChunkSize)

\* The upload has been answered; it carried a document of one chunk or more
\* under a name ending in .pdf.
answered_valid(u) ==
    /\ u.pc = "done"
    /\ is_pdf_name(u.filename)
    /\ u.content.bytes # "none"
    /\ ~extracted(u.content).error.raised
    /\ extracted(u.content).chunks # <<>>

\* The upload got 200 and its session holds the chunks of its own content,
\* the cursor at 0.
stored_own_chunks(u) ==
    /\ u.status_code = 200
    /\ u.body.total_chunks = Len(extracted(u.content).chunks)
    /\ u.body.session_id = u.session_id
    /\ u.session_id \in DOMAIN pdf_sessions
    /\ pdf_sessions[u.session_id].chunks = extracted(u.content).chunks
    /\ pdf_sessions[u.session_id].current_index = 0

\* C11: an upload named *.pdf with non-empty content that extracts to
\* N >= 1 chunks is answered 200 with a session_id and total_chunks = N, and
\* one session with exactly those chunks and current_index 0 is stored.
C11_ValidUploadStored ==
    \A i \in 1..Len(uploads) : answered_valid(uploads[i]) => stored_own_chunks(uploads[i])

\* C13: once process_uploaded_pdf has ended, with its last chunk or with an
\* exception raised after the temporary file was written, the temporary
\* file is gone.
C13_TempFileRemoved ==
    \A i \in 1..Len(uploads) :
        uploads[i].pc = "done" => temp_path(uploads[i].filename) \notin DOMAIN temp_files

\* process_uploaded_pdf wrote the file and then raised on the second page;
\* the file is gone.
C13_Witness ==
    \E i \in 1..Len(uploads) :
        /\ deployed = "routes"
        /\ uploads[i].pc = "done"
        /\ uploads[i].status_code = 400
        /\ "page" \in DOMAIN uploads[i].body
        /\ uploads[i].body.page = 2
        /\ temp_path(uploads[i].filename) \notin DOMAIN temp_files

\* C14: overlapping uploads of valid documents, the same file name
\* included, do not disturb each other: each is answered 200 with a session
\* of the chunks of its own content, and the session ids differ.
C14_OverlappingUploadsIndependent ==
    \A i, j \in 1..Len(uploads) :
        ( /\ i # j
          /\ uploads[i].overlapped /\ uploads[j].overlapped
          /\ uploads[i].filename = uploads[j].filename
          /\ writable(uploads[i].filename)
          /\ answered_valid(uploads[i]) /\ answered_valid(uploads[j]) )
        => /\ stored_own_chunks(uploads[i])
           /\ stored_own_chunks(uploads[j])
           /\ uploads[i].session_id # uploads[j].session_id

\* The chunks of the sequence that carry the page number p.
RECURSIVE chunks_of_page(_, _)
chunks_of_page(chunks, p) ==
    IF chunks = <<>> THEN <<>>
    ELSE IF Head(chunks).page_number = p
    THEN <<Head(chunks)>> \o chunks_of_page(Tail(chunks), p)
    ELSE chunks_of_page(Tail(chunks), p)

\* The page has no text, or whitespace only.
blank_page(page) == page = <<>> \/ strip(page) = <<>>

\* C25: in the chunk sequence of an uploaded document the pages are
\* numbered from 1 by their position, a page that is empty or whitespace
\* only has no chunk and shifts no later number, the chunks that carry
\* number p are the chunks of page p, and page_number never decreases
\* along the sequence.
C25_PagesInOrder ==
    \A i \in 1..Len(uploads) :
        uploads[i].status_code = 200
        => /\ \A k \in 1..Len(pdf_sessions[uploads[i].session_id].chunks) :
                  /\ pdf_sessions[uploads[i].session_id].chunks[k].page_number
                         \in 1..Len(uploads[i].content.pages)
                  /\ ~blank_page(uploads[i].content.pages[
                         pdf_sessions[uploads[i].session_id].chunks[k].page_number])
                  /\ k > 1 =>
                         pdf_sessions[uploads[i].session_id].chunks[k - 1].page_number
                             <= pdf_sessions[uploads[i].session_id].chunks[k].page_number
           /\ \A p \in 1..Len(uploads[i].content.pages) :
                  chunks_of_page(pdf_sessions[uploads[i].session_id].chunks, p) =
                      IF blank_page(uploads[i].content.pages[p]) THEN <<>>
                      ELSE process_pdf_page(uploads[i].content.pages[p], p,
                                            DefaultMaxChunkSize).chunks

\* Two documents were stored: one whose blank first page left its only
\* chunk on page 2, one with a chunk on each of its two pages.
C25_Witness ==
    /\ \E i \in 1..Len(uploads) :
           /\ uploads[i].status_code = 200
           /\ blank_page(uploads[i].content.pages[1])
           /\ pdf_sessions[uploads[i].session_id].chunks[1].page_number = 2
    /\ \E i \in 1..Len(uploads) :
           /\ uploads[i].status_code = 200
           /\ Len(pdf_sessions[uploads[i].session_id].chunks) = 2
           /\ pdf_sessions[uploads[i].session_id].chunks[1].page_number = 1
           /\ pdf_sessions[uploads[i].session_id].chunks[2].page_number = 2

\* C27: a document with zero pages, or whose every page is empty or
\* whitespace only, gives an empty chunk sequence and no error, and its
\* upload is answered with the no-content refusal and stores no session.
C27_NoPagesNoContent ==
    \A i \in 1..Len(uploads) :
        ( /\ deployed = "routes"
          /\ uploads[i].pc = "done"
          /\ is_pdf_name(uploads[i].filename) /\ writable(uploads[i].filename)
          /\ uploads[i].content.bytes = "pdf"
          /\ \A p \in 1..Len(uploads[i].content.pages) :
                 blank_page(uploads[i].content.pages[p]) )
        => /\ ~extracted(uploads[i].content).error.raised
           /\ extracted(uploads[i].content).chunks = <<>>
           /\ uploads[i].status_code = 400
           /\ uploads[i].body = [detail |-> "No text content found in PDF"]
           /\ uploads[i].session_id = BogusId

-----------------------------------------------------------------------------
(* Properties of overlapping reads, checked under ReadSpec.                *)

\* A step touched the cursor fields of the session.
cursor_touched(id) ==
    \/ pdf_sessions'[id].current_index # pdf_sessions[id].current_index
    \/ pdf_sessions'[id].last_accessed # pdf_sessions[id].last_accessed
    \/ last_read'[id] # last_read[id]

\* C15: a successful read_chunk sets current_index and last_accessed of its
\* session in one step: every step that touches the cursor fields leaves
\* both with their new values (the index read, the time of the read), so no
\* state in which only one of them is new can be observed.
C15_AtomicCursorUpdate ==
    [][\A id \in DOMAIN pdf_sessions :
          cursor_touched(id)
          => /\ pdf_sessions'[id].current_index = last_read'[id].chunk_index
             /\ pdf_sessions'[id].last_accessed = now]_vars

\* get_status answered for a session while a read of it is in synthesis,
\* with that read's index, the timestamp refreshed.
C15_Witness ==
    /\ response.op = "status"
    /\ response.status_code = 200
    /\ \E request \in pending :
           /\ request.session_id = response.session_id
           /\ request.chunk_index = response.body.current_index
           /\ request.chunk_index = 1
    /\ pdf_sessions[response.session_id].last_accessed = MaxTime

\* C16: with several reads of one session overlapping, current_index is the
\* index of the read whose update was applied last, whatever the order in
\* which the syntheses and the responses finish.
C16_LastUpdateWins ==
    \A id \in DOMAIN pdf_sessions :
        last_read[id].read => pdf_sessions[id].current_index = last_read[id].chunk_index

\* All reads have ended, the last answer delivered is the audio of a chunk
\* other than the one under the cursor.
C16_Witness ==
    /\ pending = {}
    /\ response.op = "read"
    /\ response.status_code = 200
    /\ last_read[response.session_id].read
    /\ pdf_sessions[response.session_id].current_index = last_read[response.session_id].chunk_index
    /\ response.body.audio #
           getitem(pdf_sessions[response.session_id].chunks,
                   pdf_sessions[response.session_id].current_index).text

\* C17: the cursor update of read_chunk(id, k) is committed before the
\* synthesis: while the request is in synthesis the session is in the
\* store and, unless another read moved the cursor, current_index = k and
\* get_status reports k; and the step in which the synthesis returns, fails
\* or is cancelled changes nothing in the store.
C17_CursorCommittedBeforeSynthesis ==
    /\ [](\A request \in pending :
            /\ session_found(request.session_id)
            /\ last_read[request.session_id].chunk_index = request.chunk_index
                   => /\ pdf_sessions[request.session_id].current_index =
                             request.chunk_index
                      /\ get_status_response(request.session_id).status_code = 200
                      /\ get_status_response(request.session_id).body.current_index =
                             request.chunk_index)
    /\ [][pending \ pending' # {} => pdf_sessions' = pdf_sessions]_vars

\* A read of chunk 1 was cancelled in synthesis: no response has followed
\* the upload's, nothing is in synthesis, and the cursor is at 1.
C17_Witness ==
    /\ response.op = "upload"
    /\ pending = {}
    /\ \E id \in DOMAIN pdf_sessions :
           /\ last_read[id].read
           /\ pdf_sessions[id].current_index = 1
           /\ get_status_response(id).body.current_index = 1

-----------------------------------------------------------------------------
(* Frame properties of the handlers, checked under FrameSpec.              *)

\* C28: a read_chunk that raises 404 "Session not found" or 400 "Invalid
\* chunk index" changes nothing in the store: the same sessions, each with
\* the same current_index, last_accessed and chunks.
C28_FailedReadChangesNothing ==
    [][\A session_id \in FrameIds, chunk_index \in Indices :
          ( /\ read_chunk_check(session_id, chunk_index).raised
            /\ read_chunk(session_id, chunk_index) )
          => pdf_sessions' = pdf_sessions]_vars

\* A read of a stored session was refused for its index, at a time later
\* than the session's last access.
C28_Witness ==
    /\ response.op = "read"
    /\ response.status_code = 400
    /\ response.body = [detail |-> "Invalid chunk index"]
    /\ response.session_id \in DOMAIN pdf_sessions
    /\ pdf_sessions[response.session_id].last_accessed < now

\* C29: get_status is read-only: answering 200 or 404 it leaves the store
\* as it was, last_accessed included.
C29_StatusReadOnly ==
    [][\A session_id \in FrameIds :
          get_status(session_id) => pdf_sessions' = pdf_sessions]_vars

\* get_status answered 200 for a session last accessed before now: the
\* timestamp was not refreshed.
C29_Witness ==
    /\ response.op = "status"
    /\ response.status_code = 200
    /\ pdf_sessions[response.session_id].last_accessed < now

\* C30: a successful read_chunk on a session changes only that session's
\* current_index and last_accessed: its id and chunks, the set of stored
\* ids and every other session stay as they were; so the total_chunks of a
\* session is always the value its upload returned.
C30_ReadTouchesOnlyCursor ==
    /\ [](\A i \in 1..Len(uploads) :
            uploads[i].status_code = 200
            => /\ uploads[i].session_id \in DOMAIN pdf_sessions
               /\ Len(pdf_sessions[uploads[i].session_id].chunks) =
                      uploads[i].body.total_chunks
               /\ get_status_response(uploads[i].session_id).status_code = 200
                      => get_status_response(uploads[i].session_id).body.total_chunks =
                             uploads[i].body.total_chunks)
    /\ [][\A session_id \in FrameIds, chunk_index \in Indices :
             ( /\ ~read_chunk_check(session_id, chunk_index).raised
               /\ read_chunk(session_id, chunk_index) )
             => /\ DOMAIN pdf_sessions' = DOMAIN pdf_sessions
                /\ pdf_sessions'[session_id].id = pdf_sessions[session_id].id
                /\ pdf_sessions'[session_id].chunks = pdf_sessions[session_id].chunks
                /\ \A other \in DOMAIN pdf_sessions \ {session_id} :
                       pdf_sessions'[other] = pdf_sessions[other]]_vars

\* Session 1 was read at chunk 1 at the latest time while session 2 is as
\* its upload left it, and get_status has reported the total_chunks its
\* upload returned.
C30_Witness ==
    /\ last_read[1].read
    /\ pdf_sessions[1].current_index = 1
    /\ pdf_sessions[1].last_accessed = MaxTime
    /\ ~last_read[2].read
    /\ pdf_sessions[2].current_index = 0
    /\ pdf_sessions[2].last_accessed = 0
    /\ response.op = "status"
    /\ response.session_id = 2
    /\ response.status_code = 200
    /\ response.body.total_chunks = uploads[2].body.total_chunks

-----------------------------------------------------------------------------
(* Properties of the chunk builders, checked under BuilderSpec.            *)

\* The chunk consists of exactly one whitespace-free word.
single_word(t) == split(t) = <<t>>

\* The words of the chunks, in emission order.
RECURSIVE concat_words(_)
concat_words(chunks) ==
    IF chunks = <<>> THEN <<>>
    ELSE split(Head(chunks).text) \o concat_words(Tail(chunks))

\* C8: every chunk emitted for max_chunk_size M >= 1 has len(text) <= M,
\* unless it is exactly one whitespace-free word longer than M.
C8_ChunkSizeBound ==
    pc = "done" =>
        \A i \in 1..Len(result.chunks) :
            \/ Len(result.chunks[i].text) <= max_chunk_size
            \/ single_word(result.chunks[i].text)

\* TextChunk.create_chunks_from_text emitted a word longer than
\* max_chunk_size and a chunk of exactly max_chunk_size characters.
C8_Witness ==
    /\ pc = "done"
    /\ result.fn = "pdf_service"
    /\ \E i \in 1..Len(result.chunks) :
           Len(result.chunks[i].text) > max_chunk_size
    /\ \E i \in 1..Len(result.chunks) :
           Len(result.chunks[i].text) = max_chunk_size

\* C9: the words of the emitted chunks, in order, are the words of the
\* text: none lost, duplicated, split in two or reordered.
C9_WordsPreserved ==
    (pc = "done" /\ result.fn \in {"pdf_service", "pdf_processor"} /\ text # <<>>)
        => concat_words(result.chunks) = split(text)

\* C21: within one call of either builder the i-th chunk emitted, counting
\* from 0, has chunk_index = i, whatever mix of sentence flushes and
\* word-level splits produced the chunks.
C21_IndicesInEmissionOrder ==
    pc = "done" =>
        \A i \in 1..Len(result.chunks) : result.chunks[i].chunk_index = i - 1

\* TextChunk.create_chunks_from_text flushed a sentence and then split the
\* next one into words: three chunks or more, the first ending a sentence,
\* a later one longer than max_chunk_size.
C21_Witness ==
    /\ pc = "done"
    /\ result.fn = "pdf_service"
    /\ Len(result.chunks) >= 3
    /\ has_terminal(result.chunks[1].text)
    /\ Len(result.chunks[1].text) <= max_chunk_size
    /\ \E i \in 2..Len(result.chunks) : ~has_terminal(result.chunks[i].text)
    /\ result.chunks[Len(result.chunks)].chunk_index = Len(result.chunks) - 1

\* C22: a sentence of exactly max_chunk_size characters does not take the
\* word-splitting path and is emitted intact, as one chunk of that length.
C22_ExactSizeSentenceIntact ==
    (pc = "done" /\ result.fn \in {"pdf_service", "pdf_processor"}) =>
        \A k \in 1..Len(result.sentences) :
            Len(result.sentences[k]) = max_chunk_size
            => /\ ~word_split_path(result.sentences[k], max_chunk_size)
               /\ \E i \in 1..Len(result.chunks) :
                      result.chunks[i].text = result.sentences[k]

\* TextChunk.create_chunks_from_text was given a sentence of two words and
\* exactly max_chunk_size characters between two other sentences.
C22_Witness ==
    /\ pc = "done"
    /\ result.fn = "pdf_service"
    /\ \E k \in 1..Len(result.sentences) :
           /\ Len(result.sentences[k]) = max_chunk_size
           /\ Len(split(result.sentences[k])) = 2
           /\ \E i \in 1..Len(result.chunks) :
                  result.chunks[i].text = result.sentences[k]
    /\ Len(result.chunks) >= 2

\* The character at position i ends a sentence by the rule: it is '.', '!'
\* or '?' and the accumulation it joins is not empty, that is, it is not
\* the first character and the character before it did not end a sentence.
RECURSIVE ends_sentence(_, _)
ends_sentence(t, i) ==
    /\ i > 1
    /\ t[i] \in Terminals
    /\ ~ends_sentence(t, i - 1)

\* The sentences the rule gives: the stretches that end at the ends, and
\* the text after the last end when there is any.
RECURSIVE sentences_by_rule(_, _, _)
sentences_by_rule(t, from, i) ==
    IF i > Len(t)
    THEN (IF from <= Len(t) THEN <<strip(SubSeq(t, from, Len(t)))>> ELSE <<>>)
    ELSE IF ends_sentence(t, i)
    THEN <<strip(SubSeq(t, from, i))>> \o sentences_by_rule(t, i + 1, i + 1)
    ELSE sentences_by_rule(t, from, i + 1)

\* C23: the sentence splitter ends a sentence at each '.', '!' or '?' that
\* has a character before it in the accumulated sentence, not at one that
\* is the first character accumulated, and emits the text left after the
\* last end as a final sentence.
C23_SentenceBoundaries ==
    (pc = "done" /\ result.fn = "pdf_service" /\ strip(text) # <<>>)
        => result.sentences = sentences_by_rule(text, 1, 1)

\* The text began with a terminal character, which ended nothing, and ended
\* with a fragment after the last sentence end.
C23_Witness ==
    /\ pc = "done"
    /\ result.fn = "pdf_service"
    /\ text # <<>>
    /\ text[1] \in Terminals
    /\ Len(result.sentences) = 2
    /\ Len(result.sentences[1]) > 1
    /\ result.sentences[1][1] \in Terminals
    /\ ~has_terminal(result.sentences[2])

\* The chunk is the sentences a..b joined by single spaces, none of them
\* longer than M.
whole_sentences(chunk, sentences, a, b, M) ==
    /\ chunk.text = join(Space, SubSeq(sentences, a, b))
    /\ \A k \in a..b : Len(sentences[k]) <= M

\* C24: the accumulator is flushed exactly when it is not empty and the
\* next sentence with its separating space would take it beyond
\* max_chunk_size: a chunk of whole sentences is never longer than
\* max_chunk_size, and for two consecutive chunks of whole sentences the
\* length of the first plus 1 plus the length of the first sentence of the
\* second exceeds max_chunk_size.
C24_FlushExactlyOnOverflow ==
    (pc = "done" /\ result.fn \in {"pdf_service", "pdf_processor"}) =>
        \A i \in 1..Len(result.chunks), a \in 1..Len(result.sentences),
           b \in 1..Len(result.sentences) :
            (a <= b /\ whole_sentences(result.chunks[i], result.sentences, a, b,
                                       max_chunk_size))
            => /\ Len(result.chunks[i].text) <= max_chunk_size
               /\ \A c \in (b + 1)..Len(result.sentences) :
                      ( /\ i < Len(result.chunks)
                        /\ whole_sentences(result.chunks[i + 1], result.sentences,
                                           b + 1, c, max_chunk_size) )
                      => Len(result.chunks[i].text) + 1 + Len(result.sentences[b + 1])
                             > max_chunk_size

\* Two sentences filled a chunk to exactly max_chunk_size and the third
\* sentence went to the next chunk.
C24_Witness ==
    /\ pc = "done"
    /\ result.fn = "pdf_service"
    /\ Len(result.sentences) = 3
    /\ Len(result.chunks) = 2
    /\ result.chunks[1].text = join(Space, SubSeq(result.sentences, 1, 2))
    /\ result.chunks[2].text = result.sentences[3]
    /\ Len(result.chunks[1].text) = max_chunk_size

\* Every run of whitespace is one space, and none leads or trails.
collapsed(t) ==
    t # <<>> =>
        /\ t[1] \notin Whitespace
        /\ t[Len(t)] \notin Whitespace
        /\ \A i \in 1..(Len(t) - 1) :
               t[i] \in Whitespace => (t[i] = " " /\ t[i + 1] \notin Whitespace)

\* The text handed to the builder without the period appended to it, when
\* the page had no terminal character.
without_period(page) ==
    IF has_terminal(page) THEN page_text(page)
    ELSE SubSeq(page_text(page), 1, Len(page_text(page)) - 1)

\* C26: for a page that is not blank the builder receives the text of the
\* page with every run of whitespace collapsed to one space, followed by
\* exactly one '.' if and only if the text has none of '.', '!', '?'.
C26_NormalizeAndTerminate ==
    (pc = "done" /\ result.fn = "page" /\ text # <<>> /\ strip(text) # <<>>)
        => /\ collapsed(without_period(text))
           /\ split(without_period(text)) = split(text)
           /\ page_text(text) =
                  IF has_terminal(text) THEN without_period(text)
                  ELSE Append(without_period(text), ".")
           /\ result.chunks =
                  create_chunks_from_text(page_text(text), page_number, max_chunk_size)

\* A page of two words two spaces apart and no terminal character: the
\* builder received them one space apart, with the period.
C26_Witness ==
    /\ pc = "done"
    /\ result.fn = "page"
    /\ ~has_terminal(text)
    /\ Len(split(text)) = 2
    /\ \E i \in 1..(Len(text) - 1) : text[i] = " " /\ text[i + 1] = " "
    /\ page_text(text) = split(text)[1] \o Space \o split(text)[2] \o <<".">>
    /\ result.chunks # <<>>

\* C19: a POST /tts request whose text is empty or whitespace-only is
\* answered with a 4xx status.
C19_EmptyTextIs4xx ==
    (pc = "done" /\ result.fn = "tts" /\ (text = <<>> \/ strip(text) = <<>>))
        => response.status_code \in 400..499

\* C10: the empty string and whitespace-only text yield zero chunks.
C10_BlankTextNoChunks ==
    (pc = "done" /\ (text = <<>> \/ strip(text) = <<>>)) => result.chunks = <<>>

\* TextChunk.create_chunks_from_text returned for a whitespace-only text.
C10_Witness ==
    /\ pc = "done"
    /\ result.fn = "pdf_service"
    /\ text # <<>>
    /\ strip(text) = <<>>
    /\ result.chunks = <<>>

=============================================================================
